---- MODULE Spec2Model ----
(***************************************************************************)
(* dynenum: enumerations from a one-key YAML schema.                       *)
(*                                                                         *)
(*   build.rs                 the static generator (feature static-types)  *)
(*   src/generated_types.rs   the source the generator writes              *)
(*   src/lib.rs               Type, load_types_from_yaml, match_type!      *)
(*                                                                         *)
(* A string is a sequence of one-character strings, so that the case       *)
(* conversion of the generator is computed and not assumed.                *)
(***************************************************************************)
EXTENDS Integers, Sequences, FiniteSets, TLC

VARIABLES
    feature,          \* CARGO_FEATURE_STATIC_TYPES is set
    types_yaml,       \* what is at <crate root>/types.yaml
    generated_types,  \* what is at src/generated_types.rs
    pc,               \* position of build.rs main
    panic,            \* the message main panicked with, "" when it has not
    yaml_read,        \* main has read types.yaml
    enum_variants,    \* build.rs locals, lines 23-27
    display_arms,
    fromstr_arms,
    asref_arms,
    all_variants,
    types,            \* what the caller holds of load_types_from_yaml
    call              \* the last call made into the compiled crate

vars == <<feature, types_yaml, generated_types, pc, panic, yaml_read,
          enum_variants, display_arms, fromstr_arms, asref_arms, all_variants,
          types, call>>

build_locals == <<enum_variants, display_arms, fromstr_arms, asref_arms,
                  all_variants>>

(***************************************************************************)
(* Bounds of the model.                                                    *)
(***************************************************************************)
\* longest variant list of an enumerated schema
MaxVariants == 3
\* most top-level keys of an enumerated document
MaxKeys == 2
\* most literal arms of an enumerated match_type! call
MaxArms == 2

(***************************************************************************)
(* Characters and strings.                                                 *)
(***************************************************************************)
LowerLetters == <<"a","b","c","d","e","f","g","h","i","j","k","l","m",
                  "n","o","p","q","r","s","t","u","v","w","x","y","z">>

UpperLetters == <<"A","B","C","D","E","F","G","H","I","J","K","L","M",
                  "N","O","P","Q","R","S","T","U","V","W","X","Y","Z">>

\* the characters of the model in byte order: ' ' < '-' < 'A'..'Z' < '_' < 'a'..'z'
ByteOrder == <<" ", "-">> \o UpperLetters \o <<"_">> \o LowerLetters

Range(f) == { f[i] : i \in DOMAIN f }

IndexOf(seq, c) == CHOOSE i \in DOMAIN seq : seq[i] = c

IsLower(c) == c \in Range(LowerLetters)

IsUpper(c) == c \in Range(UpperLetters)

to_uppercase(c) == IF IsLower(c) THEN UpperLetters[IndexOf(LowerLetters, c)] ELSE c

to_lowercase(c) == IF IsUpper(c) THEN LowerLetters[IndexOf(UpperLetters, c)] ELSE c

\* str's Ord: byte-wise lexicographic, a proper prefix first
RECURSIVE StrLess(_, _)
StrLess(a, b) ==
    IF b = <<>> THEN FALSE
    ELSE IF a = <<>> THEN TRUE
    ELSE IF a[1] # b[1] THEN IndexOf(ByteOrder, a[1]) < IndexOf(ByteOrder, b[1])
    ELSE StrLess(Tail(a), Tail(b))

RECURSIVE Concat(_)
Concat(ss) == IF ss = <<>> THEN <<>> ELSE ss[1] \o Concat(Tail(ss))

RECURSIVE Join(_, _)
Join(ss, sep) ==
    IF ss = <<>> THEN <<>>
    ELSE IF Len(ss) = 1 THEN ss[1]
    ELSE ss[1] \o sep \o Join(Tail(ss), sep)

(***************************************************************************)
(* convert_case, as build.rs uses it: to_case splits the string into words *)
(* at '_', '-' and ' ' (dropped), between a lowercase and an uppercase     *)
(* letter, and before the last capital of a run of capitals that a         *)
(* lowercase letter follows; empty words are dropped.  Pascal capitalises  *)
(* each word and joins them with nothing; UpperSnake uppercases each word  *)
(* and joins them with '_'.  The strings of the model hold no digits.      *)
(***************************************************************************)
IsDelim(c) == c \in {"_", "-", " "}

RECURSIVE SplitFrom(_, _, _)
SplitFrom(s, i, cur) ==
    LET flush == IF cur = <<>> THEN <<>> ELSE <<cur>> IN
    IF i > Len(s) THEN flush
    ELSE IF IsDelim(s[i]) THEN flush \o SplitFrom(s, i + 1, <<>>)
    ELSE IF /\ cur # <<>>
            /\ \/ IsLower(s[i - 1]) /\ IsUpper(s[i])
               \/ /\ IsUpper(s[i - 1]) /\ IsUpper(s[i])
                  /\ i + 1 <= Len(s) /\ IsLower(s[i + 1])
         THEN <<cur>> \o SplitFrom(s, i + 1, <<s[i]>>)
    ELSE SplitFrom(s, i + 1, Append(cur, s[i]))

Words(s) == SplitFrom(s, 1, <<>>)

Capitalize(w) ==
    [i \in DOMAIN w |-> IF i = 1 THEN to_uppercase(w[i]) ELSE to_lowercase(w[i])]

Uppercase(w) == [i \in DOMAIN w |-> to_uppercase(w[i])]

to_case_Pascal(s) ==
    LET ws == Words(s) IN Concat([i \in DOMAIN ws |-> Capitalize(ws[i])])

to_case_UpperSnake(s) ==
    LET ws == Words(s) IN Join([i \in DOMAIN ws |-> Uppercase(ws[i])], <<"_">>)

(***************************************************************************)
(* YAML.  A node is a string scalar, a sequence of nodes or a mapping: a   *)
(* sequence of <<key, value>> entries in document order.                    *)
(***************************************************************************)
Str(s) == [kind |-> "str", text |-> s, items |-> <<>>]

SeqNode(xs) == [kind |-> "seq", text |-> <<>>, items |-> xs]

MapNode(es) == [kind |-> "map", text |-> <<>>, items |-> es]

Entry(k, v) == [key |-> k, value |-> v]

\* no file at the path
NoFile == [kind |-> "nofile", text |-> <<>>, items |-> <<>>]

\* a file that is not YAML
BadYaml == [kind |-> "badyaml", text |-> <<>>, items |-> <<>>]

BoundedSeq(S, n) == UNION { [1..k -> S] : k \in 0..n }

\* variant strings of the enumerated schemas: "a_b" and "aB" have one PascalCase form
VariantStrings == { <<"a","b">>, <<"a","_","b">>, <<"a","B">> }

\* a nested sequence: an entry that is no string
NonString == SeqNode(<<>>)

Items == { Str(s) : s \in VariantStrings } \cup { NonString }

KeyNames == { <<"t">>, <<"m","y","_","e">> }

Keys == { Str(k) : k \in KeyNames } \cup { NonString }

Values == { SeqNode(xs) : xs \in BoundedSeq(Items, MaxVariants) } \cup { Str(<<"b">>) }

\* the values of the documents of several keys
ShortValues == { SeqNode(xs) : xs \in BoundedSeq(Items, 1) } \cup { Str(<<"b">>) }

Distinct(f) == \A i, j \in DOMAIN f : i # j => f[i] # f[j]

ManyKeyMaps ==
    { MapNode([i \in DOMAIN ks |-> Entry(ks[i], vs[i])]) :
        <<ks, vs>> \in UNION { { kv \in [1..n -> Keys] \X [1..n -> ShortValues] :
                                   Distinct(kv[1]) } : n \in 2..MaxKeys } }

OneKeyMaps == { MapNode(<<Entry(k, v)>>) : k \in Keys, v \in Values }

\* the schema src/generated_types.rs was generated from
RepoVariants ==
    << <<"e","m","a","i","l">>,
       <<"p","h","o","n","e","_","n","u","m","b","e","r">>,
       <<"c","r","e","d","e","n","t","i","a","l">>,
       <<"d","a","t","e">> >>

RepoSchema ==
    MapNode(<<Entry(Str(<<"i","n","f","o","r","m","a","t","i","o","n">>),
                    SeqNode([i \in DOMAIN RepoVariants |-> Str(RepoVariants[i])]))>>)

Documents ==
    { MapNode(<<>>), Str(<<"b">>), SeqNode(<<Str(<<"b">>)>>), RepoSchema }
        \cup OneKeyMaps \cup ManyKeyMaps

Files == { NoFile, BadYaml } \cup Documents

(***************************************************************************)
(* Results.                                                                *)
(***************************************************************************)
Ok(v) == [ok |-> TRUE, val |-> v, err |-> ""]

Err(e) == [ok |-> FALSE, val |-> <<>>, err |-> e]

(***************************************************************************)
(* build.rs: the generated source, as the pieces main formats into it.     *)
(***************************************************************************)
\* format!("\"{}\"", s): the string between quotes, nothing escaped
Quote(s) == <<"\"">> \o s \o <<"\"">>

\* the value of a string literal that holds no escape: the text between the quotes
StrLit(q) == SubSeq(q, 2, Len(q) - 1)

\* build.rs 32-35: what one variant adds to each part
\* mutant: the arm renders the identifier
DisplayArmIdent(variant, s) == [variant |-> variant, lit |-> Quote(variant)]

DisplayArm(variant, s) == [variant |-> variant, lit |-> Quote(s)]

\* mutant: the arm parses the identifier
FromStrArmIdent(variant, s) == [variant |-> variant, lit |-> Quote(variant)]

FromStrArm(variant, s) == [variant |-> variant, lit |-> Quote(s)]

AsRefArm(variant, s) == [variant |-> variant, lit |-> Quote(s)]

\* mutant: the listing holds the case-converted string
AllEntryIdent(s) == Quote(to_case_Pascal(s))

AllEntry(s) == Quote(s)

\* mutant: the value of the key is not asked to be a sequence
HeadEntryAnyValue(doc) ==
    IF doc.kind = "map" /\ doc.items # <<>> /\ doc.items[1].key.kind = "str"
    THEN Ok(doc.items[1])
    ELSE Err("YAML must have a single key (enum name) mapping to a sequence of variants")

\* build.rs 13-20: the first entry of the mapping, its key a string, its value a sequence
HeadEntry(doc) ==
    IF doc.kind = "map" /\ doc.items # <<>>
           /\ doc.items[1].key.kind = "str" /\ doc.items[1].value.kind = "seq"
    THEN Ok(doc.items[1])
    ELSE Err("YAML must have a single key (enum name) mapping to a sequence of variants")

enum_name == HeadEntry(types_yaml).val.key.text

variants == HeadEntry(types_yaml).val.value.items

enum_ident == to_case_Pascal(enum_name)

const_ident == <<"A","L","L","_">> \o to_case_UpperSnake(enum_name)

\* build.rs 38-77: the text written, by the parts the template is filled with
Generated ==
    [ enum_ident    |-> enum_ident,
      enum_variants |-> enum_variants,
      display_arms  |-> display_arms,
      fromstr_arms  |-> fromstr_arms,
      asref_arms    |-> asref_arms,
      const_ident   |-> const_ident,
      all_types     |-> all_variants ]

\* src/generated_types.rs as the repository holds it
CheckedIn ==
    LET Email       == <<"E","m","a","i","l">>
        PhoneNumber == <<"P","h","o","n","e","N","u","m","b","e","r">>
        Credential  == <<"C","r","e","d","e","n","t","i","a","l">>
        Date        == <<"D","a","t","e">>
        email        == Quote(RepoVariants[1])
        phone_number == Quote(RepoVariants[2])
        credential   == Quote(RepoVariants[3])
        date         == Quote(RepoVariants[4])
        arms == << [variant |-> Email, lit |-> email],
                   [variant |-> PhoneNumber, lit |-> phone_number],
                   [variant |-> Credential, lit |-> credential],
                   [variant |-> Date, lit |-> date] >>
    IN  [ enum_ident    |-> <<"I","n","f","o","r","m","a","t","i","o","n">>,
          enum_variants |-> <<Email, PhoneNumber, Credential, Date>>,
          display_arms  |-> arms,
          fromstr_arms  |-> arms,
          asref_arms    |-> arms,
          const_ident   |-> <<"A","L","L","_","I","N","F","O","R","M","A","T","I","O","N">>,
          all_types     |-> <<email, phone_number, credential, date>> ]

\* a file the write was cut short on
Truncated ==
    [ enum_ident |-> <<>>, enum_variants |-> <<>>, display_arms |-> <<>>,
      fromstr_arms |-> <<>>, asref_arms |-> <<>>, const_ident |-> <<>>,
      all_types |-> <<>> ]

(***************************************************************************)
(* src/generated_types.rs: the generated enum, read off the written parts. *)
(* A tag is its identifier.                                                *)
(***************************************************************************)
\* a match: the first arm whose pattern is the scrutinee, 0 when there is none
RECURSIVE FirstArm(_, _, _)
FirstArm(pats, x, i) ==
    IF i > Len(pats) THEN 0
    ELSE IF pats[i] = x THEN i
    ELSE FirstArm(pats, x, i + 1)

\* impl FromStr
from_str(src, x) ==
    LET pats == [i \in DOMAIN src.fromstr_arms |-> StrLit(src.fromstr_arms[i].lit)]
        i == FirstArm(pats, x, 1)
    IN  IF i = 0 THEN Err("Unknown type") ELSE Ok(src.fromstr_arms[i].variant)

\* mutant: the last arm of the identifier wins
to_string_last(src, tag) ==
    LET hits == { i \in DOMAIN src.display_arms : src.display_arms[i].variant = tag }
    IN  StrLit(src.display_arms[CHOOSE i \in hits : \A k \in hits : k <= i].lit)

\* impl Display
to_string(src, tag) ==
    LET pats == [i \in DOMAIN src.display_arms |-> src.display_arms[i].variant]
    IN  StrLit(src.display_arms[FirstArm(pats, tag, 1)].lit)

\* impl AsRef<str>
as_ref(src, tag) ==
    LET pats == [i \in DOMAIN src.asref_arms |-> src.asref_arms[i].variant]
    IN  StrLit(src.asref_arms[FirstArm(pats, tag, 1)].lit)

\* pub const ALL_<NAME>
ALL(src) == [i \in DOMAIN src.all_types |-> StrLit(src.all_types[i])]

(***************************************************************************)
(* src/lib.rs, dynamic mode.  Type(pub String) is the tuple <<s>>.         *)
(***************************************************************************)
Type(s) == <<s>>

\* impl PartialEq
Type_eq(a, b) == a[1] = b[1]

\* impl Hash: what is fed to the hasher, the string's bytes and its 0xff end mark
Type_hash(a) == a[1] \o <<"0xff">>

\* impl Display
Type_to_string(a) == a[1]

\* impl AsRef<str>
Type_as_ref(a) == a[1]

\* mutant: the string is lowercased on construction
Type_from_lower(s) == Type([i \in DOMAIN s |-> to_lowercase(s[i])])

\* impl From<&str>
Type_from(s) == Type(s)

\* mutant: elements that differ in case only are one element
InsertIgnoreCase(set, t) ==
    IF \E u \in set : [i \in DOMAIN u[1] |-> to_lowercase(u[1][i])]
                          = [i \in DOMAIN t[1] |-> to_lowercase(t[1][i])]
    THEN set ELSE set \cup {t}

\* HashSet::insert: kept out when an element of that hash is equal to it
Insert(set, t) ==
    IF \E u \in set : Type_hash(u) = Type_hash(t) /\ Type_eq(u, t) THEN set ELSE set \cup {t}

\* variants.iter().cloned().map(Type).collect()
RECURSIVE Collect(_)
Collect(vs) == IF vs = <<>> THEN {} ELSE Insert(Collect(SubSeq(vs, 1, Len(vs) - 1)), Type(vs[Len(vs)]))

\* serde: the document deserializes as BTreeMap<String, Vec<String>>
IsTypesYaml(doc) ==
    /\ doc.kind = "map"
    /\ \A e \in Range(doc.items) :
          /\ e.key.kind = "str"
          /\ e.value.kind = "seq"
          /\ \A v \in Range(e.value.items) : v.kind = "str"

\* BTreeMap::values().next(): the value of the least key
FirstValue(doc) ==
    LET e == CHOOSE e \in Range(doc.items) :
                 \A f \in Range(doc.items) : f = e \/ StrLess(e.key.text, f.key.text)
    IN  [i \in DOMAIN e.value.items |-> e.value.items[i].text]

load_types_from_yaml(file) ==
    IF file = NoFile THEN [ok |-> FALSE, val |-> {}, err |-> "No such file or directory"]
    ELSE IF file = BadYaml \/ ~IsTypesYaml(file)
         THEN [ok |-> FALSE, val |-> {}, err |-> "serde_yaml::Error"]
    ELSE IF file.items = <<>>
         THEN [ok |-> FALSE, val |-> {}, err |-> "No enum key found in YAML"]
    ELSE Ok(Collect(FirstValue(file)))

NotLoaded == [ok |-> FALSE, val |-> {}, err |-> "not called"]

(***************************************************************************)
(* match_type!, the rule with a default arm: the bodies evaluated, by the  *)
(* position of their arm, 0 for the default's.  The rule without a default *)
(* arm expands to a match on a &str with no wildcard, which rustc rejects. *)
(***************************************************************************)
\* mutant: every arm of an equal literal is evaluated
match_type_every(val_as_ref, pats) ==
    LET hits == { k \in DOMAIN pats : pats[k] = val_as_ref }
    IN  IF hits = {} THEN <<0>>
        ELSE SelectSeq([k \in DOMAIN pats |-> k], LAMBDA k : k \in hits)

match_type(val_as_ref, pats) == <<FirstArm(pats, val_as_ref, 1)>>

Init ==
    /\ feature \in BOOLEAN
    /\ types_yaml \in Files
    /\ generated_types = CheckedIn
    /\ pc = "main"
    /\ panic = ""
    /\ yaml_read = FALSE
    /\ enum_variants = <<>>
    /\ display_arms = <<>>
    /\ fromstr_arms = <<>>
    /\ asref_arms = <<>>
    /\ all_variants = <<>>
    /\ types = NotLoaded
    /\ call = [fn |-> "none"]

Abort(msg) ==
    /\ pc' = "aborted"
    /\ panic' = msg

\* build.rs 8: nothing is done unless the feature is enabled
CheckFeature ==
    /\ pc = "main"
    /\ pc' = IF feature THEN "read" ELSE "done"
    /\ UNCHANGED <<feature, types_yaml, generated_types, panic, yaml_read,
                   build_locals, types, call>>

\* build.rs 11
ReadYaml ==
    /\ pc = "read"
    /\ yaml_read' = TRUE
    /\ IF types_yaml = NoFile
       THEN Abort("Failed to read types.yaml at crate root")
       ELSE pc' = "parse" /\ UNCHANGED panic
    /\ UNCHANGED <<feature, types_yaml, generated_types, build_locals, types, call>>

\* build.rs 12
ParseYaml ==
    /\ pc = "parse"
    /\ IF types_yaml = BadYaml
       THEN Abort("Invalid YAML in types.yaml")
       ELSE pc' = "shape" /\ UNCHANGED panic
    /\ UNCHANGED <<feature, types_yaml, generated_types, yaml_read, build_locals, types, call>>

\* build.rs 13-27
Destructure ==
    /\ pc = "shape"
    /\ IF HeadEntry(types_yaml).ok
       THEN pc' = "loop" /\ UNCHANGED panic
       ELSE Abort(HeadEntry(types_yaml).err)
    /\ UNCHANGED <<feature, types_yaml, generated_types, yaml_read, build_locals, types, call>>

\* mutant: the file is written as the loop goes
ProcessVariantStreaming ==
    /\ pc = "loop"
    /\ Len(all_variants) < Len(variants)
    /\ LET v == variants[Len(all_variants) + 1]
           s == v.text
           variant == to_case_Pascal(s)
       IN  IF v.kind # "str"
           THEN /\ Abort("Variant must be a string")
                /\ UNCHANGED <<build_locals, generated_types>>
           ELSE /\ enum_variants' = Append(enum_variants, variant)
                /\ display_arms' = Append(display_arms, DisplayArm(variant, s))
                /\ fromstr_arms' = Append(fromstr_arms, FromStrArm(variant, s))
                /\ asref_arms' = Append(asref_arms, AsRefArm(variant, s))
                /\ all_variants' = Append(all_variants, AllEntry(s))
                /\ generated_types' =
                      [ enum_ident |-> enum_ident, enum_variants |-> enum_variants',
                        display_arms |-> display_arms', fromstr_arms |-> fromstr_arms',
                        asref_arms |-> asref_arms', const_ident |-> const_ident,
                        all_types |-> all_variants' ]
                /\ UNCHANGED <<pc, panic>>
    /\ UNCHANGED <<feature, types_yaml, yaml_read, types, call>>

\* build.rs 28-36: one iteration of the loop over the variants
ProcessVariant ==
    /\ pc = "loop"
    /\ Len(all_variants) < Len(variants)
    /\ LET v == variants[Len(all_variants) + 1]
           s == v.text
           variant == to_case_Pascal(s)
       IN  IF v.kind # "str"
           THEN /\ Abort("Variant must be a string")
                /\ UNCHANGED build_locals
           ELSE /\ enum_variants' = Append(enum_variants, variant)
                /\ display_arms' = Append(display_arms, DisplayArm(variant, s))
                /\ fromstr_arms' = Append(fromstr_arms, FromStrArm(variant, s))
                /\ asref_arms' = Append(asref_arms, AsRefArm(variant, s))
                /\ all_variants' = Append(all_variants, AllEntry(s))
                /\ UNCHANGED <<pc, panic>>
    /\ UNCHANGED <<feature, types_yaml, generated_types, yaml_read, types, call>>

\* build.rs 37-79: the loop is over; fs::write replaces the file or fails
WriteGenerated ==
    /\ pc = "loop"
    /\ Len(all_variants) = Len(variants)
    /\ \/ /\ generated_types' = Generated
          /\ pc' = "done"
          /\ UNCHANGED panic
       \/ /\ generated_types' \in {generated_types, Truncated}
          /\ Abort("Failed to write generated_types.rs")
    /\ UNCHANGED <<feature, types_yaml, yaml_read, build_locals, types, call>>

(***************************************************************************)
(* Calls into the crate, once the build script has run.                    *)
(***************************************************************************)
\* strings handed to the parsers and constructors
Inputs == VariantStrings \cup { <<"A","B">>, <<"b">>, RepoVariants[1] }

\* literals of the match_type! arms
MatchLiterals == { <<"a","_","b">>, <<"a","B">> }

ArmLists == BoundedSeq(MatchLiterals, MaxArms) \ { <<>> }

\* lib.rs 172-186 includes the generated file in the crate: there is a crate to call
\* when rustc accepts the enum, its identifiers non-empty and no two the same, and
\* the matches on &self, which need an arm
Compiles(src) ==
    /\ src.enum_ident # <<>>
    /\ src.enum_variants # <<>>
    /\ \A i \in DOMAIN src.enum_variants : src.enum_variants[i] # <<>>
    /\ Distinct(src.enum_variants)

\* a behaviour follows one call (after at most one load): the calls are functions
\* of their arguments and of the generated source, and leave nothing behind
StaticCrate == feature /\ pc = "done" /\ Compiles(generated_types) /\ call.fn = "none"

DynamicCrate == ~feature /\ pc = "done" /\ call.fn = "none"

CallFrame == <<feature, types_yaml, generated_types, pc, panic, yaml_read,
               build_locals>>

\* <Enum>::from_str(x)
StaticFromStr ==
    /\ StaticCrate
    /\ \E x \in Inputs :
          call' = [fn |-> "from_str", arg |-> x, out |-> from_str(generated_types, x)]
    /\ UNCHANGED <<CallFrame, types>>

\* from_str(s).unwrap(), rendered, and the rendering parsed
StaticRoundTrip ==
    /\ StaticCrate
    /\ \E s \in Inputs :
          /\ from_str(generated_types, s).ok
          /\ LET value == from_str(generated_types, s).val
                 shown == to_string(generated_types, value)
             IN  call' = [fn |-> "round_trip", arg |-> s, value |-> value, shown |-> shown,
                          out |-> from_str(generated_types, shown)]
    /\ UNCHANGED <<CallFrame, types>>

\* for t in ALL_<NAME>
StaticAll ==
    /\ StaticCrate
    /\ call' = [fn |-> "ALL", out |-> ALL(generated_types)]
    /\ UNCHANGED <<CallFrame, types>>

\* match_type!(<Enum>::from_str(s).unwrap(), pats.., _ => default)
StaticMatch ==
    /\ StaticCrate
    /\ \E s \in Inputs, pats \in ArmLists :
          /\ from_str(generated_types, s).ok
          /\ LET value == from_str(generated_types, s).val
             IN  call' = [fn |-> "match_type", arg |-> as_ref(generated_types, value),
                          pats |-> pats,
                          out |-> match_type(as_ref(generated_types, value), pats)]
    /\ UNCHANGED <<CallFrame, types>>

\* let types = load_types_from_yaml(path)
LoadTypes ==
    /\ DynamicCrate
    /\ types = NotLoaded
    /\ types' = load_types_from_yaml(types_yaml)
    /\ UNCHANGED <<CallFrame, call>>

\* Type::from(x), displayed and borrowed
DynamicFrom ==
    /\ DynamicCrate
    /\ \E x \in Inputs :
          call' = [fn |-> "Type::from", arg |-> x, out |-> Type_from(x),
                   shown |-> Type_to_string(Type_from(x)),
                   as_ref |-> Type_as_ref(Type_from(x))]
    /\ UNCHANGED <<CallFrame, types>>

\* Type::from(x) == Type::from(y), and their hashes
DynamicEq ==
    /\ DynamicCrate
    /\ \E x \in VariantStrings, y \in VariantStrings :
          call' = [fn |-> "eq", a |-> x, b |-> y,
                   out |-> Type_eq(Type_from(x), Type_from(y)),
                   hash_a |-> Type_hash(Type_from(x)),
                   hash_b |-> Type_hash(Type_from(y))]
    /\ UNCHANGED <<CallFrame, types>>

\* Type(s), rendered, and a Type made of the rendering
DynamicRoundTrip ==
    /\ DynamicCrate
    /\ \E s \in Inputs :
          LET value == Type(s)
              shown == Type_to_string(value)
          IN  call' = [fn |-> "round_trip", arg |-> s, value |-> value, shown |-> shown,
                       out |-> Type_from(shown)]
    /\ UNCHANGED <<CallFrame, types>>

\* match_type!(Type::from(s), pats.., _ => default)
DynamicMatch ==
    /\ DynamicCrate
    /\ \E s \in VariantStrings, pats \in ArmLists :
          call' = [fn |-> "match_type", arg |-> Type_as_ref(Type_from(s)), pats |-> pats,
                   out |-> match_type(Type_as_ref(Type_from(s)), pats)]
    /\ UNCHANGED <<CallFrame, types>>

Next ==
    \/ CheckFeature
    \/ ReadYaml
    \/ ParseYaml
    \/ Destructure
    \/ ProcessVariant
    \/ WriteGenerated
    \/ StaticFromStr
    \/ StaticRoundTrip
    \/ StaticAll
    \/ StaticMatch
    \/ LoadTypes
    \/ DynamicFrom
    \/ DynamicEq
    \/ DynamicRoundTrip
    \/ DynamicMatch

Spec == Init /\ [][Next]_vars

(***************************************************************************)
(* Properties.                                                             *)
(***************************************************************************)
\* the variant strings of the schema build.rs reads, in declaration order
VariantTexts == [i \in DOMAIN variants |-> variants[i].text]

Built == feature /\ pc = "done"

\* C1: round trip.  Parsing the rendered form of the value built from a variant
\* string gives that value back: Ok of the tag in static mode, an equal Type in
\* dynamic mode.
C1_RoundTrip ==
    call.fn = "round_trip" =>
        IF feature
        THEN /\ call.arg \in Range(VariantTexts)
             /\ call.out = Ok(call.value)
        ELSE /\ Type_eq(call.out, call.value)
             /\ call.out = call.value

C1_Witness ==
    /\ feature
    /\ call.fn = "round_trip"
    /\ call.arg = <<"a","_","b">>
    /\ Len(variants) >= 2
    /\ call.out.ok

\* C2: negative parse, static mode.  from_str of a string that is no variant string
\* of the schema is Err("Unknown type") and never a tag; from_str of a variant
\* string is Ok of a tag of the enum.
C2_NegativeParse ==
    call.fn = "from_str" =>
        IF call.arg \in Range(VariantTexts)
        THEN call.out.ok /\ call.out.val \in Range(generated_types.enum_variants)
        ELSE call.out = Err("Unknown type")

C2_Witness ==
    /\ call.fn = "from_str"
    /\ call.arg = <<"A","B">>
    /\ <<"a","B">> \in Range(VariantTexts)
    /\ call.out = Err("Unknown type")

\* the document is a mapping of one string key to a sequence of strings
WellFormedOneKey == IsTypesYaml(types_yaml) /\ Len(types_yaml.items) = 1

\* C3: uniqueness, dynamic mode.  For a well-formed one-key document the set
\* load_types_from_yaml returns has one Type per distinct variant string: its
\* strings are the set of the list's strings, nothing added, nothing lost.
C3_Uniqueness ==
    (types # NotLoaded /\ WellFormedOneKey) =>
        /\ types.ok
        /\ { t[1] : t \in types.val } = Range(VariantTexts)
        /\ Cardinality(types.val) = Cardinality(Range(VariantTexts))

C3_Witness ==
    /\ types.ok
    /\ WellFormedOneKey
    /\ VariantTexts = << <<"a","B">>, <<"a","b">>, <<"a","B">> >>
    /\ Cardinality(types.val) = 2

\* C4: order preservation, static mode.  ALL_<NAME> holds the variant strings as
\* the schema writes them, in declaration order, one element per entry.
C4_OrderPreserved ==
    /\ Built => /\ ALL(generated_types) = VariantTexts
                /\ Len(ALL(generated_types)) = Len(variants)
    /\ call.fn = "ALL" => call.out = VariantTexts

C4_Witness ==
    /\ call.fn = "ALL"
    /\ call.out = << <<"a","_","b">>, <<"a","b">> >>
    /\ to_case_Pascal(call.out[1]) # call.out[1]

\* C5: match_type! with a fallback runs one action: that of the first literal
\* equal to the value's as_ref() string, the fallback's when no literal is equal.
C5_MatchFirst ==
    call.fn = "match_type" =>
        /\ Len(call.out) = 1
        /\ LET i == call.out[1]
               hits == { k \in DOMAIN call.pats : call.pats[k] = call.arg }
           IN  IF hits = {} THEN i = 0
               ELSE i \in hits /\ \A k \in hits : i <= k

C5_Witness ==
    /\ call.fn = "match_type"
    /\ Len(call.pats) = 2
    /\ call.pats[1] # call.arg
    /\ call.pats[2] = call.arg
    /\ call.out = <<2>>

\* C6: a document of two or more top-level keys is rejected: the build script
\* aborts on it and writes nothing, and load_types_from_yaml returns an error.
C6_TwoKeysRejected ==
    (types_yaml.kind = "map" /\ Len(types_yaml.items) >= 2) =>
        /\ pc # "done" \/ ~feature
        /\ generated_types = CheckedIn
        /\ types # NotLoaded => ~types.ok

\* the value of the only key is a scalar, or the mapping has no key
ScalarOrNoKey ==
    /\ types_yaml.kind = "map"
    /\ \/ types_yaml.items = <<>>
       \/ Len(types_yaml.items) = 1 /\ types_yaml.items[1].value.kind = "str"

\* C7: a document whose only key maps to a scalar, and a document of no key, are
\* rejected in both modes: the build script aborts with its 'single key' message
\* before the loop, load_types_from_yaml returns an error and no set, which for a
\* document of no key is 'No enum key found in YAML'.
C7_ScalarRejected ==
    ScalarOrNoKey =>
        /\ pc \notin {"loop", "done"} \/ ~feature
        /\ generated_types = CheckedIn
        /\ pc = "aborted" =>
             panic = "YAML must have a single key (enum name) mapping to a sequence of variants"
        /\ types # NotLoaded =>
             /\ ~types.ok
             /\ types.val = {}
             /\ types_yaml.items = <<>> => types.err = "No enum key found in YAML"

C7_Witness ==
    /\ ScalarOrNoKey
    /\ types_yaml.items # <<>>
    /\ types_yaml.items[1].key.kind = "str"
    /\ pc = "aborted"

\* C8: no partial success in static generation.  With the feature off nothing is
\* read or written; an abort on an unreadable file, invalid YAML, a wrong shape or
\* a non-string entry leaves src/generated_types.rs as it was; the file differs
\* from what it was only once every variant has been processed.
C8_NoPartialGeneration ==
    /\ ~feature => ~yaml_read /\ generated_types = CheckedIn
    /\ (pc = "aborted" /\ panic # "Failed to write generated_types.rs") =>
          generated_types = CheckedIn
    /\ generated_types # CheckedIn =>
          /\ feature /\ yaml_read
          /\ pc \in {"done", "aborted"}
          /\ HeadEntry(types_yaml).ok
          /\ Len(all_variants) = Len(variants)
          /\ \A i \in DOMAIN variants : variants[i].kind = "str"

C8_Witness ==
    /\ panic = "Variant must be a string"
    /\ Len(all_variants) >= 2
    /\ generated_types = CheckedIn

\* C9: Type::from validates nothing.  For every string x, in the loaded schema or
\* not, Type::from(x) is a Type that displays and borrows as x; two Types are equal,
\* and hash the same, exactly when their strings are the same.
C9_NoValidation ==
    /\ call.fn = "Type::from" =>
          /\ call.out = Type(call.arg)
          /\ call.shown = call.arg
          /\ call.as_ref = call.arg
    /\ call.fn = "eq" =>
          /\ call.out <=> (call.a = call.b)
          /\ (call.hash_a = call.hash_b) <=> (call.a = call.b)

C9_Witness ==
    /\ call.fn = "Type::from"
    /\ types.ok
    /\ types.val # {}
    /\ call.arg \notin { t[1] : t \in types.val }
    /\ call.shown = call.arg

\* two entries of the schema, distinct strings, one PascalCase identifier
Collide(i, j) ==
    /\ i < j
    /\ VariantTexts[i] # VariantTexts[j]
    /\ to_case_Pascal(VariantTexts[i]) = to_case_Pascal(VariantTexts[j])

\* the first entry of the schema with the identifier of entry i
FirstOf(i) ==
    CHOOSE k \in DOMAIN variants :
        /\ to_case_Pascal(VariantTexts[k]) = to_case_Pascal(VariantTexts[i])
        /\ \A m \in 1..(k - 1) :
              to_case_Pascal(VariantTexts[m]) # to_case_Pascal(VariantTexts[i])

\* C10: the generator does not reject tag-identifier collisions.  The loop aborts
\* on a non-string entry only; for two distinct variant strings of one PascalCase
\* identifier the written source names the identifier once per variant, parses both
\* strings to that tag, and renders the tag as the string declared first.
C10_CollisionsNotRejected ==
    /\ panic = "Variant must be a string" => variants[Len(all_variants) + 1].kind # "str"
    /\ Built =>
         \A i, j \in DOMAIN variants :
            Collide(i, j) =>
               LET src == generated_types
                   tag == to_case_Pascal(VariantTexts[i])
               IN  /\ Len(src.enum_variants) = Len(variants)
                   /\ src.enum_variants[i] = tag /\ src.enum_variants[j] = tag
                   /\ from_str(src, VariantTexts[i]) = Ok(tag)
                   /\ from_str(src, VariantTexts[j]) = Ok(tag)
                   /\ to_string(src, tag) = VariantTexts[FirstOf(i)]
                   /\ \A k \in {i, j} :
                         VariantTexts[k] # VariantTexts[FirstOf(i)] =>
                            to_string(src, from_str(src, VariantTexts[k]).val)
                               # VariantTexts[k]

C10_Witness ==
    /\ Built
    /\ generated_types # CheckedIn
    /\ Len(variants) = 3
    /\ Collide(2, 3)
    /\ to_string(generated_types, from_str(generated_types, VariantTexts[3]).val)
          = VariantTexts[2]

\* build.rs run on the repository's schema writes the file the repository holds
RegeneratesCheckedIn == (Built /\ types_yaml = RepoSchema) => generated_types = CheckedIn

====
